---- MODULE Spec2Model ----
(***************************************************************************)
(* The Wake packet codec of wake-rs (src/src/lib.rs): the CRC-8 engine,    *)
(* the byte stuffer and destuffer, and Packet encode / decode; and the     *)
(* stuffers, destuffers and encoders of the legacy binary                  *)
(* (src/src/main.rs).                                                      *)
(*                                                                         *)
(* Bytes are integers 0..255.  Option<T> is a sequence of length at most   *)
(* one: <<>> is None and <<x>> is Some(x).  Result<T, WakeError> is a      *)
(* record [tag, val]: Ok(v), Err(e), and Panic(m) for a call that unwinds  *)
(* instead of returning.  Vec indices are the source's, counted from 0.    *)
(***************************************************************************)
EXTENDS Integers, Sequences, FiniteSets, TLC

VARIABLES
    pc,        \* where the caller stands
    wp,        \* the Packet handed to encode
    encoded,   \* what encode returned
    received,  \* the buffer handed to decode
    decoded,   \* what decode returned
    buf,       \* the Vec<u8> handed to crc, stuff, dry or a legacy function
    out,       \* what that call returned
    back,      \* what the second call of a pair returned
    cpc,       \* concurrent callers: where each caller's call stands
    arg,       \* the Packet or the buffer each caller's call borrows
    local,     \* the Vec each call builds: encoded_packet, destuffed_pkt
    parsed,    \* the fields decode has taken from its frame
    cret,      \* what each caller's call returned
    overflow_checks  \* the build profile the callers run in

seqVars == <<pc, wp, encoded, received, decoded, buf, out, back>>
parVars == <<cpc, arg, local, parsed, cret, overflow_checks>>
vars == <<seqVars, parVars>>

(***************************************************************************)
(* Protocol constants                                                      *)
(***************************************************************************)
FEND == 192
FESC == 219
TFEND == 220
TFESC == 221
ADDR_MASK == 128
CRC_INIT == 222
\* Mutant of PACKET_MIN_LEN: the length floor one byte too low
PacketMinLenTooLow == 4 - 1
PACKET_MIN_LEN == 4

(***************************************************************************)
(* Option and Result                                                       *)
(***************************************************************************)
None == <<>>
Some(x) == <<x>>
IsSome(o) == Len(o) = 1
Unwrap(o) == o[1]

Ok(v) == [tag |-> "Ok", val |-> v]
Err(e) == [tag |-> "Err", val |-> e]
Panic(m) == [tag |-> "Panic", val |-> m]
NoResult == [tag |-> "NoCall", val |-> <<>>]

WakeError == {"TooShortPacket", "CannotFindStart", "DestuffingFailed",
              "WrongPacketLength", "WrongPacketCrc", "WrongAddrRange",
              "WrongCmdRange"}

(***************************************************************************)
(* u8 and usize arithmetic                                                 *)
(***************************************************************************)
RECURSIVE BitXor(_, _)
BitXor(a, b) ==
    IF a = 0 THEN b
    ELSE IF b = 0 THEN a
    ELSE ((a + b) % 2) + 2 * BitXor(a \div 2, b \div 2)

RECURSIVE BitAnd(_, _)
BitAnd(a, b) ==
    IF a = 0 \/ b = 0 THEN 0
    ELSE ((a % 2) * (b % 2)) + 2 * BitAnd(a \div 2, b \div 2)

RECURSIVE BitOr(_, _)
BitOr(a, b) ==
    IF a = 0 THEN b
    ELSE IF b = 0 THEN a
    ELSE (IF (a % 2) + (b % 2) > 0 THEN 1 ELSE 0) + 2 * BitOr(a \div 2, b \div 2)

\* !x on a u8
BitNot(x) == 255 - x

\* x as u8
\* Mutant of AsU8: the cast saturates instead of truncating
AsU8Saturating(x) == IF x > 255 THEN 255 ELSE x
AsU8(x) == x % 256

\* The width of usize: 16 bits is the narrowest target Rust defines; on
\* wider targets a wrapped difference is larger still.
USIZE_MODULUS == 2 ^ 16

\* a - b on usize.  A build with overflow checks (debug) panics when b > a,
\* a build without them (release) wraps.
UsizeSub(a, b, checked) ==
    IF a >= b THEN Ok(a - b)
    ELSE IF checked THEN Panic("attempt to subtract with overflow")
    ELSE Ok(a - b + USIZE_MODULUS)

\* v[i] and v[a..b] with the source's 0-based indices
At(v, i) == v[i + 1]
Slice(v, a, b) == SubSeq(v, a + 1, b)

(***************************************************************************)
(* Wake::crc                                                               *)
(***************************************************************************)
\* Mutant of Crc8Step: the feedback value is not applied
Crc8StepNoFeedback(c, b) ==
    IF BitAnd(BitXor(b, c), 1) = 1
    THEN BitOr(c \div 2, 128)
    ELSE BitAnd(c \div 2, BitNot(128))

\* One turn of the loop of crc8: the new crc
Crc8Step(c, b) ==
    IF BitAnd(BitXor(b, c), 1) = 1
    THEN BitOr(BitXor(c, 24) \div 2, 128)
    ELSE BitAnd(c \div 2, BitNot(128))

\* for _ in 0..8, on the loop's variables st = [crc, b, turn]
RECURSIVE Crc8Loop(_)
Crc8Loop(st) ==
    IF ~(st.turn < 8) THEN st
    ELSE Crc8Loop([crc  |-> Crc8Step(st.crc, st.b),
                   b    |-> st.b \div 2,
                   turn |-> st.turn + 1])

\* the closure crc8 applied to one byte
crc8(c, data) == Crc8Loop([crc |-> c, b |-> data, turn |-> 0]).crc

\* for n in self: one turn on the loop's variables st = [crc, k]
CrcStep(st, v) == [crc |-> crc8(st.crc, At(v, st.k)), k |-> st.k + 1]

\* At most n turns of the loop: the first half of them, then the rest
RECURSIVE CrcLoop(_, _, _)
CrcLoop(st, v, n) ==
    IF n = 0 \/ ~(st.k < Len(v)) THEN st
    ELSE IF n = 1 THEN CrcStep(st, v)
    ELSE CrcLoop(CrcLoop(st, v, n \div 2), v, n - (n \div 2))

crc(v) == CrcLoop([crc |-> CRC_INIT, k |-> 0], v, Len(v)).crc

(***************************************************************************)
(* Wake::stuff                                                             *)
(***************************************************************************)
\* Mutant of StuffByte: only FESC is escaped
StuffByteFescOnly(x) ==
    IF x = FESC THEN <<FESC, TFESC>>
    ELSE <<x>>

StuffByte(x) ==
    IF x = FESC THEN <<FESC, TFESC>>
    ELSE IF x = FEND THEN <<FESC, TFEND>>
    ELSE <<x>>

\* for x in &self[1..]: one turn on st = [stuffed, k], x being self[k]
StuffStep(st, v) ==
    [stuffed |-> st.stuffed \o StuffByte(At(v, st.k)), k |-> st.k + 1]

RECURSIVE StuffLoop(_, _, _)
StuffLoop(st, v, n) ==
    IF n = 0 \/ ~(st.k < Len(v)) THEN st
    ELSE IF n = 1 THEN StuffStep(st, v)
    ELSE StuffLoop(StuffLoop(st, v, n \div 2), v, n - (n \div 2))

\* Mutant of stuff: the first byte is read before the length is checked
StuffReadsFirst(v) ==
    IF ~(0 < Len(v)) THEN Panic("index out of bounds")
    ELSE IF At(v, 0) # FEND THEN Panic("assertion failed: FEND")
    ELSE IF ~(Len(v) >= PACKET_MIN_LEN - 1) THEN Panic("assertion failed: len")
    ELSE Ok(StuffLoop([stuffed |-> <<At(v, 0)>>, k |-> 1], v, Len(v) - 1).stuffed)

stuff(v) ==
    IF ~(Len(v) >= PACKET_MIN_LEN - 1) THEN Panic("assertion failed: len")
    ELSE IF At(v, 0) # FEND THEN Panic("assertion failed: FEND")
    ELSE Ok(StuffLoop([stuffed |-> <<At(v, 0)>>, k |-> 1], v, Len(v) - 1).stuffed)

(***************************************************************************)
(* Wake::dry                                                               *)
(***************************************************************************)
\* Mutant of Unescape: the two substitutes swapped
UnescapeSwapped(x) ==
    IF x = TFESC THEN Some(FEND)
    ELSE IF x = TFEND THEN Some(FESC)
    ELSE None

\* The byte an escape stands for: Some(byte), or None for an invalid escape
Unescape(x) ==
    IF x = TFESC THEN Some(FESC)
    ELSE IF x = TFEND THEN Some(FEND)
    ELSE None

\* while i < self.len(): one turn on st = [output, i, ret]; ret holds the
\* result once the loop has returned or panicked
DryStep(st, v, checked) ==
    IF At(v, st.i) = FESC
    THEN LET last == UsizeSub(Len(v), 2, checked) IN
         IF last.tag # "Ok" THEN [st EXCEPT !.ret = Some(last)]
         ELSE IF st.i > last.val
              THEN [st EXCEPT !.ret = Some(Err("WrongPacketLength"))]
         ELSE IF ~(st.i + 1 < Len(v))
              THEN [st EXCEPT !.ret = Some(Panic("index out of bounds"))]
         ELSE LET byte == Unescape(At(v, st.i + 1)) IN
              IF IsSome(byte)
              THEN [output |-> Append(st.output, Unwrap(byte)),
                    i |-> st.i + 2, ret |-> None]
              ELSE [st EXCEPT !.ret = Some(Err("DestuffingFailed"))]
    ELSE [output |-> Append(st.output, At(v, st.i)), i |-> st.i + 1,
          ret |-> None]

RECURSIVE DryLoop(_, _, _, _)
DryLoop(st, v, n, checked) ==
    IF n = 0 \/ IsSome(st.ret) \/ ~(st.i < Len(v)) THEN st
    ELSE IF n = 1 THEN DryStep(st, v, checked)
    ELSE DryLoop(DryLoop(st, v, n \div 2, checked), v, n - (n \div 2), checked)

\* The loop ends within self.len() turns: every turn moves i forward
dry(v, checked) ==
    LET st == DryLoop([output |-> <<>>, i |-> 0, ret |-> None], v, Len(v),
                      checked)
    IN  IF IsSome(st.ret) THEN Unwrap(st.ret) ELSE Ok(st.output)

(***************************************************************************)
(* Decode::decode                                                          *)
(***************************************************************************)
\* Iterator::next of destuffed_pkt.iter().enumerate() standing at index pos
IterNext(v, pos) ==
    IF pos < Len(v) THEN Some([i |-> pos, x |-> At(v, pos)]) ELSE None

\* Mutant of DecodeHeader: the address keeps its marker bit
DecodeHeaderUnmasked(destuffed) ==
    LET first == IterNext(destuffed, 1) IN
    IF ~IsSome(first) THEN Err("TooShortPacket")
    ELSE LET d == Unwrap(first).x IN
         IF d >= ADDR_MASK /\ d <= 255
         THEN LET second == IterNext(destuffed, 2) IN
              IF ~IsSome(second) THEN Err("TooShortPacket")
              ELSE Ok([address |-> Some(d),
                       command |-> Unwrap(second).x,
                       next    |-> 3])
         ELSE Ok([address |-> None, command |-> d, next |-> 2])

\* 4: the address (if it exists) and the command; next is where v_iter stands
DecodeHeader(destuffed) ==
    LET first == IterNext(destuffed, 1) IN
    IF ~IsSome(first) THEN Err("TooShortPacket")
    ELSE LET d == Unwrap(first).x IN
         IF d >= ADDR_MASK /\ d <= 255
         THEN LET second == IterNext(destuffed, 2) IN
              IF ~IsSome(second) THEN Err("TooShortPacket")
              ELSE Ok([address |-> Some(BitAnd(d, BitNot(ADDR_MASK))),
                       command |-> Unwrap(second).x,
                       next    |-> 3])
         ELSE Ok([address |-> None, command |-> d, next |-> 2])

\* 8: (destuffed_pkt.len() - i - 2) != *data_len as usize
LengthMismatch(destuffed, i, data_len, checked) ==
    LET a == UsizeSub(Len(destuffed), i, checked) IN
    IF a.tag # "Ok" THEN a
    ELSE LET b == UsizeSub(a.val, 2, checked) IN
         IF b.tag # "Ok" THEN b ELSE Ok(b.val # data_len)

\* Mutant of DecodeData: a zero length gives Some(empty)
DecodeDataAlwaysSome(destuffed, i, data_len) ==
    Some(Slice(destuffed, i + 1, Len(destuffed) - 1))

\* 9: the data
DecodeData(destuffed, i, data_len) ==
    IF data_len = 0 THEN None
    ELSE Some(Slice(destuffed, i + 1, Len(destuffed) - 1))

\* Mutant of CrcMatches: the received checksum accepted without comparison
CrcUnchecked(destuffed) == TRUE

\* 6, 10: take the CRC off the end and compare it
CrcMatches(destuffed) ==
    LET received_crc == At(destuffed, Len(destuffed) - 1)
        rest         == Slice(destuffed, 0, Len(destuffed) - 1)
    IN  received_crc = crc(rest)

\* 4 to 9: the fields of the frame, before the CRC is compared
DecodeFields(destuffed, checked) ==
    LET h == DecodeHeader(destuffed) IN
    IF h.tag # "Ok" THEN h
    ELSE LET len == IterNext(destuffed, h.val.next) IN
         IF ~IsSome(len) THEN Err("TooShortPacket")
         ELSE LET i        == Unwrap(len).i
                  data_len == Unwrap(len).x
                  bad      == LengthMismatch(destuffed, i, data_len, checked)
              IN  IF bad.tag # "Ok" THEN bad
                  ELSE IF bad.val THEN Err("WrongPacketLength")
                  ELSE Ok([address |-> h.val.address,
                           command |-> h.val.command,
                           data    |-> DecodeData(destuffed, i, data_len)])

DecodeFrame(destuffed, checked) ==
    LET h == DecodeHeader(destuffed) IN
    IF h.tag # "Ok" THEN h
    ELSE LET len == IterNext(destuffed, h.val.next) IN
         IF ~IsSome(len) THEN Err("TooShortPacket")
         ELSE LET i        == Unwrap(len).i
                  data_len == Unwrap(len).x
                  bad      == LengthMismatch(destuffed, i, data_len, checked)
              IN  IF bad.tag # "Ok" THEN bad
                  ELSE IF bad.val THEN Err("WrongPacketLength")
                  ELSE IF ~CrcMatches(destuffed) THEN Err("WrongPacketCrc")
                  ELSE Ok([address |-> h.val.address,
                           command |-> h.val.command,
                           data    |-> DecodeData(destuffed, i, data_len)])

decode(self, checked) ==
    IF Len(self) < PACKET_MIN_LEN THEN Err("TooShortPacket")
    ELSE IF At(self, 0) # FEND THEN Err("CannotFindStart")
    ELSE LET destuffed_pkt == dry(self, checked) IN
         IF destuffed_pkt.tag # "Ok" THEN destuffed_pkt
         ELSE DecodeFrame(destuffed_pkt.val, checked)

(***************************************************************************)
(* Encode::encode                                                          *)
(***************************************************************************)
\* Mutant of EncodeData: no length byte when there is no data
EncodeDataNoLength(data) ==
    IF IsSome(data)
    THEN <<AsU8(Len(Unwrap(data)))>> \o Unwrap(data)
    ELSE <<>>

\* 4: the data length and the data, if it exists
EncodeData(data) ==
    IF IsSome(data)
    THEN <<AsU8(Len(Unwrap(data)))>> \o Unwrap(data)
    ELSE <<0>>

\* Mutant of Seal: the stuffing first, then the CRC of the stuffed bytes
SealStuffedFirst(encoded_packet) ==
    LET stuffed == stuff(encoded_packet) IN
    IF stuffed.tag = "Ok"
    THEN Ok(Append(stuffed.val, crc(stuffed.val)))
    ELSE stuffed

\* 5, 6: the CRC, then the stuffing
Seal(encoded_packet) ==
    LET stuffed == stuff(Append(encoded_packet, crc(encoded_packet))) IN
    IF stuffed.tag = "Ok" THEN Ok(stuffed.val) ELSE stuffed

\* Mutant of encode: the command is checked before the address
EncodeCommandFirst(self) ==
    IF self.command > 127 THEN Err("WrongCmdRange")
    ELSE IF IsSome(self.address) /\ Unwrap(self.address) > 127
    THEN Err("WrongAddrRange")
    ELSE Seal((IF IsSome(self.address)
               THEN <<FEND, BitOr(Unwrap(self.address), ADDR_MASK)>>
               ELSE <<FEND>>)
              \o <<self.command>> \o EncodeData(self.data))

encode(self) ==
    LET start == <<FEND>> IN
    IF IsSome(self.address) /\ Unwrap(self.address) > 127
    THEN Err("WrongAddrRange")
    ELSE LET addressed ==
                 IF IsSome(self.address)
                 THEN Append(start, BitOr(Unwrap(self.address), ADDR_MASK))
                 ELSE start
         IN  IF self.command > 127 THEN Err("WrongCmdRange")
             ELSE Seal(Append(addressed, self.command) \o EncodeData(self.data))

(***************************************************************************)
(* The legacy binary (src/src/main.rs): the in-place and the copying       *)
(* stuffers and destuffers, and encode_packet / encode_packet_v            *)
(***************************************************************************)
\* Vec::insert(index, element) and Vec::remove(index)
VecInsert(v, index, element) ==
    SubSeq(v, 1, index) \o <<element>> \o SubSeq(v, index + 1, Len(v))
VecRemove(v, index) == SubSeq(v, 1, index) \o SubSeq(v, index + 2, Len(v))

\* for _i in 0..8, body, on *crc = c and b
DoCrc8Step(c, b) ==
    IF BitAnd(BitXor(b, c), 1) = 1
    THEN BitOr(BitXor(c, 24) \div 2, 128)
    ELSE BitAnd(c \div 2, BitNot(128))

RECURSIVE DoCrc8Loop(_)
DoCrc8Loop(st) ==
    IF ~(st.turn < 8) THEN st
    ELSE DoCrc8Loop([crc  |-> DoCrc8Step(st.crc, st.b),
                     b    |-> st.b \div 2,
                     turn |-> st.turn + 1])

\* The value of *crc after do_crc8(&mut crc, data)
do_crc8(c, data) == DoCrc8Loop([crc |-> c, b |-> data, turn |-> 0]).crc

DoCrcArrayStep(st, arr) ==
    [crc |-> do_crc8(st.crc, At(arr, st.k)), k |-> st.k + 1]

RECURSIVE DoCrcArrayLoop(_, _, _)
DoCrcArrayLoop(st, arr, n) ==
    IF n = 0 \/ ~(st.k < Len(arr)) THEN st
    ELSE IF n = 1 THEN DoCrcArrayStep(st, arr)
    ELSE DoCrcArrayLoop(DoCrcArrayLoop(st, arr, n \div 2), arr,
                        n - (n \div 2))

do_crc_array(arr) ==
    DoCrcArrayLoop([crc |-> CRC_INIT, k |-> 0], arr, Len(arr)).crc

\* Mutant of DoStuffingStep: a FEND is kept and TFEND inserted behind it
DoStuffingStepKeepsFend(st) ==
    LET x == At(st.data, st.i) IN
    IF x = FESC
    THEN [data |-> VecInsert(st.data, st.i + 1, TFESC), i |-> st.i + 1]
    ELSE IF x = FEND
    THEN [data |-> VecInsert(st.data, st.i + 1, TFEND), i |-> st.i + 1]
    ELSE [st EXCEPT !.i = st.i + 1]

\* while i < data.len(): one turn on st = [data, i]
DoStuffingStep(st) ==
    LET x == At(st.data, st.i) IN
    IF x = FESC
    THEN [data |-> VecInsert(st.data, st.i + 1, TFESC), i |-> st.i + 1]
    ELSE IF x = FEND
    THEN [data |-> VecInsert([st.data EXCEPT ![st.i + 1] = FESC],
                             st.i + 1, TFEND),
          i    |-> st.i + 1]
    ELSE [st EXCEPT !.i = st.i + 1]

RECURSIVE DoStuffingLoop(_, _)
DoStuffingLoop(st, n) ==
    IF n = 0 \/ ~(st.i < Len(st.data)) THEN st
    ELSE IF n = 1 THEN DoStuffingStep(st)
    ELSE DoStuffingLoop(DoStuffingLoop(st, n \div 2), n - (n \div 2))

\* The buffer after do_stuffing(&mut data); every turn moves i forward and
\* lengthens data by at most one byte, so the loop ends within 2 * len turns
do_stuffing(data) == DoStuffingLoop([data |-> data, i |-> 1], 2 * Len(data)).data

\* for x in &data[1..]: one turn on st = [stuffed, k], x being data[k]
DoStuffingVStep(st, data) ==
    LET x == At(data, st.k) IN
    [stuffed |-> IF x = FESC THEN st.stuffed \o <<FESC, TFESC>>
                 ELSE IF x = FEND THEN st.stuffed \o <<FESC, TFEND>>
                 ELSE Append(st.stuffed, x),
     k |-> st.k + 1]

RECURSIVE DoStuffingVLoop(_, _, _)
DoStuffingVLoop(st, data, n) ==
    IF n = 0 \/ ~(st.k < Len(data)) THEN st
    ELSE IF n = 1 THEN DoStuffingVStep(st, data)
    ELSE DoStuffingVLoop(DoStuffingVLoop(st, data, n \div 2), data,
                         n - (n \div 2))

do_stuffing_v(data) ==
    IF ~(0 < Len(data)) THEN Panic("index out of bounds")
    ELSE Ok(DoStuffingVLoop([stuffed |-> <<At(data, 0)>>, k |-> 1], data,
                            Len(data)).stuffed)

\* while i < data.len(): one turn on st = [data, i, ret]; ret holds the
\* result once the function has returned
DoDestuffingStep(st, checked) ==
    IF At(st.data, st.i) = FESC
    THEN LET last == UsizeSub(Len(st.data), 2, checked) IN
         IF last.tag # "Ok" THEN [st EXCEPT !.ret = Some(last)]
         ELSE IF st.i > last.val THEN [st EXCEPT !.ret = Some(Ok(FALSE))]
         ELSE IF ~(st.i + 1 < Len(st.data))
              THEN [st EXCEPT !.ret = Some(Panic("index out of bounds"))]
         ELSE LET next == At(st.data, st.i + 1) IN
              IF next = TFESC
              THEN [data |-> VecRemove(st.data, st.i + 1), i |-> st.i + 1,
                    ret |-> None]
              ELSE IF next = TFEND
              THEN [data |-> VecRemove([st.data EXCEPT ![st.i + 1] = FEND],
                                       st.i + 1),
                    i |-> st.i + 1, ret |-> None]
              ELSE [st EXCEPT !.ret = Some(Ok(FALSE))]
    ELSE [st EXCEPT !.i = st.i + 1]

RECURSIVE DoDestuffingLoop(_, _, _)
DoDestuffingLoop(st, n, checked) ==
    IF n = 0 \/ IsSome(st.ret) \/ ~(st.i < Len(st.data)) THEN st
    ELSE IF n = 1 THEN DoDestuffingStep(st, checked)
    ELSE DoDestuffingLoop(DoDestuffingLoop(st, n \div 2, checked),
                          n - (n \div 2), checked)

\* do_destuffing(&mut data): the value returned and the buffer it leaves
do_destuffing(data, checked) ==
    LET st == DoDestuffingLoop([data |-> data, i |-> 1, ret |-> None],
                               Len(data), checked)
    IN  [ret  |-> IF IsSome(st.ret) THEN Unwrap(st.ret) ELSE Ok(TRUE),
         data |-> st.data]

\* while i < data.len(): one turn on st = [output, i, ret]
DoDestuffingOStep(st, data, checked) ==
    IF At(data, st.i) = FESC
    THEN LET last == UsizeSub(Len(data), 2, checked) IN
         IF last.tag # "Ok" THEN [st EXCEPT !.ret = Some(last)]
         ELSE IF st.i > last.val THEN [st EXCEPT !.ret = Some(Ok(None))]
         ELSE IF ~(st.i + 1 < Len(data))
              THEN [st EXCEPT !.ret = Some(Panic("index out of bounds"))]
         ELSE LET next == At(data, st.i + 1) IN
              IF next = TFESC
              THEN [output |-> Append(st.output, FESC), i |-> st.i + 2,
                    ret |-> None]
              ELSE IF next = TFEND
              THEN [output |-> Append(st.output, FEND), i |-> st.i + 2,
                    ret |-> None]
              ELSE [st EXCEPT !.ret = Some(Ok(None))]
    ELSE [output |-> Append(st.output, At(data, st.i)), i |-> st.i + 1,
          ret |-> None]

RECURSIVE DoDestuffingOLoop(_, _, _, _)
DoDestuffingOLoop(st, data, n, checked) ==
    IF n = 0 \/ IsSome(st.ret) \/ ~(st.i < Len(data)) THEN st
    ELSE IF n = 1 THEN DoDestuffingOStep(st, data, checked)
    ELSE DoDestuffingOLoop(DoDestuffingOLoop(st, data, n \div 2, checked),
                           data, n - (n \div 2), checked)

\* do_destuffing_o(&data): Ok(Some(output)), Ok(None), or the panic of
\* data[0] on an empty Vec
do_destuffing_o(data, checked) ==
    IF ~(0 < Len(data)) THEN Panic("index out of bounds")
    ELSE LET st == DoDestuffingOLoop(
                       [output |-> <<At(data, 0)>>, i |-> 1, ret |-> None],
                       data, Len(data), checked)
         IN  IF IsSome(st.ret) THEN Unwrap(st.ret) ELSE Ok(Some(st.output))

\* vec![FEND, cmd, data.len() as u8] extended by data and closed with its crc
LegacyFrame(cmd, data) ==
    LET encoded_packet == <<FEND, cmd, AsU8(Len(data))>> \o data IN
    Append(encoded_packet, do_crc_array(encoded_packet))

encode_packet(cmd, data) == do_stuffing(LegacyFrame(cmd, data))

encode_packet_v(cmd, data) == do_stuffing_v(LegacyFrame(cmd, data))

(***************************************************************************)
(* The callers: the inputs they hand to the codec                          *)
(***************************************************************************)
\* Longest data of an encoded packet, longest tail of a received buffer
MaxDataLen == 2
MaxTailLen == 4

SeqsUpTo(S, n) == UNION {[1..k -> S] : k \in 0..n}

\* Addresses and commands on both sides of 0x7F; 0x40 and 0x5B become FEND
\* and FESC under the address mask, command 0x1D has FESC as CRC of its
\* empty frame
AddrValues == {0, 18, 64, 91, 127, 128, 255}
CmdValues == {0, 3, 29, 64, 127, 128}
DataBytes == {0, 235, FEND, FESC, TFESC}
Packets ==
    [address : {None} \cup {Some(a) : a \in AddrValues},
     command : CmdValues,
     data    : {None} \cup {Some(d) : d \in SeqsUpTo(DataBytes, MaxDataLen)}]

\* Received buffers: every tail over RawBytes behind a start marker or
\* behind another byte, the same closed with the checksum a sender appends,
\* and the buffers of decode_wo_address_test and decode_w_address_test
RawBytes == {0, 1, 129, FEND, FESC, TFEND, TFESC}
Tails == SeqsUpTo(RawBytes, MaxTailLen)
WithCrc(v) ==
    LET destuffed == dry(v, FALSE) IN
    IF destuffed.tag = "Ok" THEN Append(v, crc(destuffed.val)) ELSE v
TestBuffers ==
    { <<FEND, 3, 5, 1, 2, 3, 4, 5, 107>>,
      <<FEND, 3, 5>>,
      <<3, 5, 1, 2, 3, 4, 5, 107>>,
      <<FEND, FESC, FESC, 1, 2, 3, 4, 5, FESC, TFEND>>,
      <<FEND, 3, 4, 1, 2, 3, 4, 5, 108>>,
      <<FEND, 3, 6, 1, 2, 3, 4, 5, 108>>,
      <<FEND, 3, 5, 1, 2, 3, 4, 5, 108>>,
      <<FEND, 137, 3, 5, 1, 2, 3, 4, 5, 105>>,
      <<FEND, FESC, TFEND, 64, 0, 229>>,
      <<FEND, 129, 3, 0>>,
      <<FEND, 3, FESC, TFEND>> }
MinimalFrames == { <<FEND, cmd, 0, crc(<<FEND, cmd, 0>>)>> : cmd \in 0..127 }
Buffers ==
    {<<>>}
    \cup { <<h>> \o t : h \in {FEND, 1}, t \in Tails }
    \cup { WithCrc(<<FEND>> \o t) : t \in Tails }
    \cup TestBuffers
    \cup MinimalFrames

\* Packets whose data is as long as the length byte can say, and longer
MaxOverLen == 2
BigData ==
    UNION { { [i \in 1..n |-> b] : b \in {0, FEND} }
            \cup { [i \in 1..n |-> (i - 1) % 256] }
          : n \in 255..(255 + MaxOverLen) }
BigPackets ==
    [address : {None, Some(18)}, command : {3}, data : {Some(d) : d \in BigData}]

\* Byte vectors handed to crc, stuff, dry and the legacy functions: every
\* vector over VecBytes up to MaxVecLen bytes and the vectors of crc_test,
\* stuff_test, dry_test and of the legacy tests
MaxVecLen == 4
VecBytes == {1, FEND, FESC, TFEND, TFESC}
TestVecs ==
    { <<1, 2, 3, 4, 5>>,
      <<192, 3, 0>>,
      <<192, 137, 3, 5, 1, 2, 3, 4, 5>>,
      <<FEND, FESC, 1, 2, 3, 4, 5, FEND>>,
      <<FEND, 3, 0>>,
      <<FEND, 3>>,
      <<52>>,
      <<1, 2, 3, 4, 5, FEND>>,
      <<FEND, FESC, TFESC, 1, 2, 3, 4, 5, FESC>>,
      <<FEND, FESC, 1, 2, 3, 4, 5, FESC, TFEND>>,
      <<FEND, FESC, TFESC, 1, 2, 3, 4, 5, FESC, TFEND>>,
      <<FESC, FESC, 1, 2, 3, 4, 5, FEND>>,
      <<FESC, FESC, TFESC, 1, 2, 3, 4, 5, FESC, TFEND>>,
      <<FESC, FESC, TFESC, 1, 2, 3, 4, 5, FESC>>,
      <<FESC, FESC, 1, 2, 3, 4, 5, FESC, TFEND>> }
Vecs == SeqsUpTo(VecBytes, MaxVecLen) \cup TestVecs

\* Bytes fed to do_crc8 one after another, and how many of them
MaxFeedLen == 4
FeedBytes == {0, 1, 255, 85}

\* Commands and data handed to encode_packet and encode_packet_v
LegacyPackets ==
    [address : {None},
     command : CmdValues \cup {FEND, FESC, 255},
     data    : {Some(d) : d \in SeqsUpTo(DataBytes, MaxDataLen) \cup BigData}]

\* Overflow checks of the build: on (debug profile) or off (release profile)
OverflowChecks == {TRUE, FALSE}

\* Concurrent callers, and the packets and buffers they hand over
NumCallers == 2
Callers == 1..NumCallers
ParPackets ==
    { [address |-> None, command |-> 29, data |-> None],
      [address |-> Some(64), command |-> 3, data |-> Some(<<FEND, 235>>)],
      [address |-> Some(128), command |-> 3, data |-> None],
      [address |-> None, command |-> 128, data |-> Some(<<1>>)] }
ParBuffers ==
    { <<FEND, FESC, TFEND, 64, 0, 229>>,
      <<FEND, 3, 5, 1, 2, 3, 4, 5, 108>>,
      <<FEND, 129, 3, 0>> }

(***************************************************************************)
(* State machine: one caller holding a packet to encode, a received buffer *)
(* to decode, or a byte vector to hand to crc, stuff, dry or a legacy      *)
(* function                                                                *)
(***************************************************************************)
DefaultPacket == [address |-> None, command |-> 0, data |-> None]

\* No concurrent caller has a call under way
NoCall == [op |-> "none", wp |-> DefaultPacket, received |-> <<>>]
ParIdle ==
    /\ cpc = [c \in Callers |-> "idle"]
    /\ arg = [c \in Callers |-> NoCall]
    /\ local = [c \in Callers |-> <<>>]
    /\ parsed = [c \in Callers |-> DefaultPacket]
    /\ cret = [c \in Callers |-> NoResult]
    /\ overflow_checks = FALSE

Init ==
    /\ ParIdle
    /\ encoded = NoResult
    /\ decoded = NoResult
    /\ back = NoResult
    /\ \/ /\ pc = "encode"
          /\ wp \in Packets \cup BigPackets
          /\ received = <<>> /\ buf = <<>> /\ out = NoResult
       \/ /\ pc = "decode"
          /\ received \in Buffers
          /\ wp = DefaultPacket /\ buf = <<>> /\ out = NoResult
       \/ /\ pc \in {"crc", "stuff", "dry", "do_stuffing", "do_destuffing"}
          /\ buf \in Vecs
          /\ wp = DefaultPacket /\ received = <<>> /\ out = NoResult
       \/ /\ pc = "do_crc8"
          /\ out = CRC_INIT
          /\ wp = DefaultPacket /\ received = <<>> /\ buf = <<>>
       \/ /\ pc = "encode_packet"
          /\ wp \in LegacyPackets
          /\ received = <<>> /\ buf = <<>> /\ out = NoResult

\* let encoded = wp.encode()
CallEncode ==
    /\ pc = "encode"
    /\ encoded' = encode(wp)
    /\ pc' = "encoded"
    /\ UNCHANGED <<wp, received, decoded, buf, out, back>>
    /\ UNCHANGED parVars

\* let decoded = received.decode()
CallDecode ==
    /\ pc = "decode"
    /\ \E checked \in OverflowChecks : decoded' = decode(received, checked)
    /\ pc' = "decoded"
    /\ UNCHANGED <<wp, encoded, received, buf, out, back>>
    /\ UNCHANGED parVars

\* let decoded = encoded.unwrap().decode()
DecodeEncoded ==
    /\ pc = "encoded"
    /\ encoded.tag = "Ok"
    /\ received' = encoded.val
    /\ \E checked \in OverflowChecks : decoded' = decode(received', checked)
    /\ pc' = "roundtrip"
    /\ UNCHANGED <<wp, encoded, buf, out, back>>
    /\ UNCHANGED parVars

\* bit k of a byte inverted
FlipBit(x, k) == BitXor(x, 2 ^ k)

\* let mut bad = encoded.unwrap(); bad[bad.len() - 1] ^= 1 << k;
\* let decoded = bad.decode()
CorruptCrc ==
    /\ pc = "encoded"
    /\ encoded.tag = "Ok"
    /\ \E k \in 0..7 :
           received' = [encoded.val EXCEPT ![Len(encoded.val)] = FlipBit(@, k)]
    /\ \E checked \in OverflowChecks : decoded' = decode(received', checked)
    /\ pc' = "corrupted"
    /\ UNCHANGED <<wp, encoded, buf, out, back>>
    /\ UNCHANGED parVars

\* let out = buf.crc()
CallCrc ==
    /\ pc = "crc"
    /\ out' = crc(buf)
    /\ pc' = "crc_done"
    /\ UNCHANGED <<wp, encoded, received, decoded, buf, back>>
    /\ UNCHANGED parVars

\* do_crc8(&mut crc, b): out is crc, buf the bytes fed so far
FeedCrc8 ==
    /\ pc = "do_crc8"
    /\ Len(buf) < MaxFeedLen
    /\ \E b \in FeedBytes :
           /\ out' = do_crc8(out, b)
           /\ buf' = Append(buf, b)
    /\ UNCHANGED <<pc, wp, encoded, received, decoded, back>>
    /\ UNCHANGED parVars

\* let out = catch_unwind(|| buf.stuff())
CallStuff ==
    /\ pc = "stuff"
    /\ out' = stuff(buf)
    /\ pc' = "stuffed"
    /\ UNCHANGED <<wp, encoded, received, decoded, buf, back>>
    /\ UNCHANGED parVars

\* let back = out.dry()
DryStuffed ==
    /\ pc = "stuffed"
    /\ out.tag = "Ok"
    /\ \E checked \in OverflowChecks : back' = dry(out.val, checked)
    /\ pc' = "restored"
    /\ UNCHANGED <<wp, encoded, received, decoded, buf, out>>
    /\ UNCHANGED parVars

\* let out = buf.dry()
CallDry ==
    /\ pc = "dry"
    /\ \E checked \in OverflowChecks : out' = dry(buf, checked)
    /\ pc' = "dried"
    /\ UNCHANGED <<wp, encoded, received, decoded, buf, back>>
    /\ UNCHANGED parVars

\* let mut aa = buf.clone(); do_stuffing(&mut aa): out is aa afterwards;
\* let back = do_stuffing_v(buf)
LegacyStuffing ==
    /\ pc = "do_stuffing"
    /\ out' = do_stuffing(buf)
    /\ back' = do_stuffing_v(buf)
    /\ pc' = "do_stuffing_done"
    /\ UNCHANGED <<wp, encoded, received, decoded, buf>>
    /\ UNCHANGED parVars

\* let mut b = buf.clone(); do_destuffing(&mut b): out is the value returned
\* and b afterwards; let back = do_destuffing_o(&buf)
LegacyDestuffing ==
    /\ pc = "do_destuffing"
    /\ \E checked \in OverflowChecks :
           /\ out' = do_destuffing(buf, checked)
           /\ back' = do_destuffing_o(buf, checked)
    /\ pc' = "do_destuffing_done"
    /\ UNCHANGED <<wp, encoded, received, decoded, buf>>
    /\ UNCHANGED parVars

\* let out = encode_packet(cmd, &data); let back = encode_packet_v(cmd, &data)
LegacyEncode ==
    /\ pc = "encode_packet"
    /\ out' = encode_packet(wp.command, Unwrap(wp.data))
    /\ back' = encode_packet_v(wp.command, Unwrap(wp.data))
    /\ pc' = "encode_packet_done"
    /\ UNCHANGED <<wp, encoded, received, decoded, buf>>
    /\ UNCHANGED parVars

\* let encoded = decoded.unwrap().encode()
ReEncode ==
    /\ pc = "decoded"
    /\ decoded.tag = "Ok"
    /\ encoded' = encode(decoded.val)
    /\ pc' = "reencoded"
    /\ UNCHANGED <<wp, received, decoded, buf, out, back>>
    /\ UNCHANGED parVars

\* let back = encoded.unwrap().decode()
DecodeReEncoded ==
    /\ pc = "reencoded"
    /\ encoded.tag = "Ok"
    /\ \E checked \in OverflowChecks : back' = decode(encoded.val, checked)
    /\ pc' = "redecoded"
    /\ UNCHANGED <<wp, encoded, received, decoded, buf, out>>
    /\ UNCHANGED parVars

Next ==
    \/ CallEncode
    \/ CallDecode
    \/ DecodeEncoded
    \/ CorruptCrc
    \/ CallCrc
    \/ FeedCrc8
    \/ CallStuff
    \/ DryStuffed
    \/ CallDry
    \/ LegacyStuffing
    \/ LegacyDestuffing
    \/ LegacyEncode
    \/ ReEncode
    \/ DecodeReEncoded

Spec == Init /\ [][Next]_vars

(***************************************************************************)
(* Concurrent callers: each call of encode and decode taken statement by   *)
(* statement, the statements of different callers interleaved              *)
(***************************************************************************)
\* Mutant of LocalOf: one Vec shared by all calls
LocalShared(c) == 1

\* The Vec a call allocates for itself: let mut encoded_packet = vec![],
\* let mut destuffed_pkt = self.dry()?
LocalOf(c) == c

\* The caller hands a packet to encode or a buffer to decode
ParCall(c) ==
    /\ cpc[c] = "idle"
    /\ \/ \E p \in ParPackets :
             /\ arg' = [arg EXCEPT ![c] = [op |-> "encode", wp |-> p,
                                          received |-> <<>>]]
             /\ cpc' = [cpc EXCEPT ![c] = "e_start"]
       \/ \E b \in ParBuffers :
             /\ arg' = [arg EXCEPT ![c] = [op |-> "decode",
                                          wp |-> DefaultPacket,
                                          received |-> b]]
             /\ cpc' = [cpc EXCEPT ![c] = "d_check"]
    /\ UNCHANGED <<local, parsed, cret, overflow_checks>>
    /\ UNCHANGED seqVars

\* The call returns to its caller with a value or an error
ParFinish(c, ret) ==
    /\ cret' = [cret EXCEPT ![c] = ret]
    /\ cpc' = [cpc EXCEPT ![c] = "done"]

\* The call goes on to its next statement
ParGoto(c, label) ==
    /\ cpc' = [cpc EXCEPT ![c] = label]
    /\ UNCHANGED cret

\* 1, 2: let mut encoded_packet = vec![]; encoded_packet.push(FEND)
ParEncodeStart(c) ==
    /\ cpc[c] = "e_start"
    /\ local' = [local EXCEPT ![LocalOf(c)] = <<FEND>>]
    /\ ParGoto(c, "e_addr")
    /\ UNCHANGED <<arg, parsed, overflow_checks>>
    /\ UNCHANGED seqVars

\* 3: the address, if it exists
ParEncodeAddress(c) ==
    /\ cpc[c] = "e_addr"
    /\ LET address == arg[c].wp.address IN
       IF IsSome(address) /\ Unwrap(address) > 127
       THEN /\ ParFinish(c, Err("WrongAddrRange"))
            /\ UNCHANGED local
       ELSE /\ local' = [local EXCEPT ![LocalOf(c)] =
                            IF IsSome(address)
                            THEN Append(@, BitOr(Unwrap(address), ADDR_MASK))
                            ELSE @]
            /\ ParGoto(c, "e_cmd")
    /\ UNCHANGED <<arg, parsed, overflow_checks>>
    /\ UNCHANGED seqVars

\* 4: the command
ParEncodeCommand(c) ==
    /\ cpc[c] = "e_cmd"
    /\ IF arg[c].wp.command > 127
       THEN /\ ParFinish(c, Err("WrongCmdRange"))
            /\ UNCHANGED local
       ELSE /\ local' = [local EXCEPT ![LocalOf(c)] =
                            Append(@, arg[c].wp.command)]
            /\ ParGoto(c, "e_data")
    /\ UNCHANGED <<arg, parsed, overflow_checks>>
    /\ UNCHANGED seqVars

\* 4: the data length and the data
ParEncodeData(c) ==
    /\ cpc[c] = "e_data"
    /\ local' = [local EXCEPT ![LocalOf(c)] = @ \o EncodeData(arg[c].wp.data)]
    /\ ParGoto(c, "e_crc")
    /\ UNCHANGED <<arg, parsed, overflow_checks>>
    /\ UNCHANGED seqVars

\* 5: encoded_packet.push(encoded_packet.crc())
ParEncodeCrc(c) ==
    /\ cpc[c] = "e_crc"
    /\ local' = [local EXCEPT ![LocalOf(c)] = Append(@, crc(@))]
    /\ ParGoto(c, "e_stuff")
    /\ UNCHANGED <<arg, parsed, overflow_checks>>
    /\ UNCHANGED seqVars

\* 6: Ok(encoded_packet.stuff())
ParEncodeStuff(c) ==
    /\ cpc[c] = "e_stuff"
    /\ ParFinish(c, stuff(local[LocalOf(c)]))
    /\ UNCHANGED <<arg, local, parsed, overflow_checks>>
    /\ UNCHANGED seqVars

\* 1, 2: the minimum length and the start marker
ParDecodeCheck(c) ==
    /\ cpc[c] = "d_check"
    /\ IF Len(arg[c].received) < PACKET_MIN_LEN
       THEN ParFinish(c, Err("TooShortPacket"))
       ELSE IF At(arg[c].received, 0) # FEND
       THEN ParFinish(c, Err("CannotFindStart"))
       ELSE ParGoto(c, "d_dry")
    /\ UNCHANGED <<arg, local, parsed, overflow_checks>>
    /\ UNCHANGED seqVars

\* 3: let mut destuffed_pkt = self.dry()?
ParDecodeDry(c) ==
    /\ cpc[c] = "d_dry"
    /\ LET destuffed_pkt == dry(arg[c].received, overflow_checks) IN
       IF destuffed_pkt.tag # "Ok"
       THEN /\ ParFinish(c, destuffed_pkt)
            /\ UNCHANGED local
       ELSE /\ local' = [local EXCEPT ![LocalOf(c)] = destuffed_pkt.val]
            /\ ParGoto(c, "d_frame")
    /\ UNCHANGED <<arg, parsed, overflow_checks>>
    /\ UNCHANGED seqVars

\* 4 to 9: the address, the command, the data length and the data
ParDecodeFields(c) ==
    /\ cpc[c] = "d_frame"
    /\ LET fields == DecodeFields(local[LocalOf(c)], overflow_checks) IN
       IF fields.tag # "Ok"
       THEN /\ ParFinish(c, fields)
            /\ UNCHANGED parsed
       ELSE /\ parsed' = [parsed EXCEPT ![c] = fields.val]
            /\ ParGoto(c, "d_crc")
    /\ UNCHANGED <<arg, local, overflow_checks>>
    /\ UNCHANGED seqVars

\* 6, 10: let received_crc = destuffed_pkt.remove(destuffed_pkt.len() - 1)
\* and the comparison with destuffed_pkt.crc()
ParDecodeCrc(c) ==
    /\ cpc[c] = "d_crc"
    /\ LET destuffed_pkt == local[LocalOf(c)] IN
       /\ local' = [local EXCEPT ![LocalOf(c)] =
                       VecRemove(destuffed_pkt, Len(destuffed_pkt) - 1)]
       /\ ParFinish(c, IF CrcMatches(destuffed_pkt) THEN Ok(parsed[c])
                       ELSE Err("WrongPacketCrc"))
    /\ UNCHANGED <<arg, parsed, overflow_checks>>
    /\ UNCHANGED seqVars

\* The caller takes the result and is free for its next call; the Vec the
\* call worked in is dropped
ParReturn(c) ==
    /\ cpc[c] = "done"
    /\ cpc' = [cpc EXCEPT ![c] = "idle"]
    /\ arg' = [arg EXCEPT ![c] = NoCall]
    /\ cret' = [cret EXCEPT ![c] = NoResult]
    /\ parsed' = [parsed EXCEPT ![c] = DefaultPacket]
    /\ local' = [local EXCEPT ![LocalOf(c)] = <<>>]
    /\ UNCHANGED overflow_checks
    /\ UNCHANGED seqVars

InitPar ==
    /\ pc = "par"
    /\ wp = DefaultPacket
    /\ encoded = NoResult /\ decoded = NoResult
    /\ out = NoResult /\ back = NoResult
    /\ received = <<>> /\ buf = <<>>
    /\ cpc = [c \in Callers |-> "idle"]
    /\ arg = [c \in Callers |-> NoCall]
    /\ local = [c \in Callers |-> <<>>]
    /\ parsed = [c \in Callers |-> DefaultPacket]
    /\ cret = [c \in Callers |-> NoResult]
    /\ overflow_checks \in OverflowChecks

NextPar ==
    \E c \in Callers :
        \/ ParCall(c)
        \/ ParEncodeStart(c)
        \/ ParEncodeAddress(c)
        \/ ParEncodeCommand(c)
        \/ ParEncodeData(c)
        \/ ParEncodeCrc(c)
        \/ ParEncodeStuff(c)
        \/ ParDecodeCheck(c)
        \/ ParDecodeDry(c)
        \/ ParDecodeFields(c)
        \/ ParDecodeCrc(c)
        \/ ParReturn(c)

SpecPar == InitPar /\ [][NextPar]_vars

(***************************************************************************)
(* Properties                                                              *)
(***************************************************************************)
EncodeReturned == pc \in {"encoded", "roundtrip"}
DecodeReturned == pc \in {"decoded", "roundtrip"}

AddressInRange(p) == ~IsSome(p.address) \/ Unwrap(p.address) <= 127
CommandInRange(p) == p.command <= 127
DataLen(p) == IF IsSome(p.data) THEN Len(Unwrap(p.data)) ELSE 0
ValidPacket(p) == AddressInRange(p) /\ CommandInRange(p) /\ DataLen(p) <= 255

\* Some(empty) read as None
Normalised(p) == IF p.data = Some(<<>>) THEN [p EXCEPT !.data = None] ELSE p

\* C1 as stated: every valid packet encodes, and decoding the encoded bytes
\* returns a packet equal to it in address, command and data.
C1_RoundTripExact ==
    /\ EncodeReturned /\ ValidPacket(wp) => encoded.tag = "Ok"
    /\ pc = "roundtrip" /\ ValidPacket(wp) => decoded = Ok(wp)

\* C1 amended: every valid packet encodes, and decoding the encoded bytes
\* returns a packet equal to it in address and command, and in data except
\* that data = Some(empty) comes back as None.
C1_RoundTrip ==
    /\ EncodeReturned /\ ValidPacket(wp) => encoded.tag = "Ok"
    /\ pc = "roundtrip" /\ ValidPacket(wp) => decoded = Ok(Normalised(wp))

C1_Witness ==
    /\ pc = "roundtrip"
    /\ ValidPacket(wp)
    /\ IsSome(wp.address)
    /\ wp.data = Some(<<FEND, FESC>>)
    /\ decoded = Ok(wp)

\* The pre-stuff frame of section 6: FEND [addr|0x80]? command length data crc
WireLayout(p) ==
    LET body == <<FEND>>
                \o (IF IsSome(p.address) THEN <<Unwrap(p.address) + 128>>
                    ELSE <<>>)
                \o <<p.command, DataLen(p) % 256>>
                \o (IF IsSome(p.data) THEN Unwrap(p.data) ELSE <<>>)
    IN  Append(body, crc(body))

DemoPacket == [address |-> Some(18), command |-> 3, data |-> Some(<<0, 235>>)]

\* C2: for a packet with address absent or <= 0x7F and command <= 0x7F,
\* encode returns stuff(B), B being FEND, address | 0x80 if present, command,
\* data length, data, crc of all before; address 0x12, command 3, data
\* [0x00, 0xEB] gives [0xC0, 0x92, 0x03, 0x02, 0x00, 0xEB, 0x72].
C2_EncodeLayout ==
    EncodeReturned /\ AddressInRange(wp) /\ CommandInRange(wp) =>
        /\ encoded = stuff(WireLayout(wp))
        /\ encoded.tag = "Ok"
        /\ wp = DemoPacket => encoded.val = <<192, 146, 3, 2, 0, 235, 114>>

C2_Witness ==
    /\ pc = "encoded"
    /\ wp = DemoPacket
    /\ encoded = Ok(<<192, 146, 3, 2, 0, 235, 114>>)

\* C3: encode fails with WrongAddrRange exactly when the address is present
\* and > 0x7F, whatever the command; otherwise with WrongCmdRange exactly
\* when the command is > 0x7F; otherwise it succeeds.  A failure carries an
\* error and no bytes.
C3_EncodeRangeErrors ==
    EncodeReturned =>
        /\ encoded = Err("WrongAddrRange") <=> ~AddressInRange(wp)
        /\ encoded = Err("WrongCmdRange") <=>
               AddressInRange(wp) /\ ~CommandInRange(wp)
        /\ encoded.tag = "Ok" <=> AddressInRange(wp) /\ CommandInRange(wp)
        /\ encoded.tag # "Ok" =>
               encoded.tag = "Err" /\ encoded.val \in WakeError

C3_Witness ==
    /\ pc = "encoded"
    /\ ~AddressInRange(wp)
    /\ ~CommandInRange(wp)
    /\ encoded = Err("WrongAddrRange")

DecodeErrors == {"TooShortPacket", "CannotFindStart", "DestuffingFailed",
                 "WrongPacketLength", "WrongPacketCrc"}

\* C4: decode is total: for every buffer it returns a Packet or one of
\* TooShortPacket, CannotFindStart, DestuffingFailed, WrongPacketLength,
\* WrongPacketCrc; it never aborts and never returns WrongAddrRange or
\* WrongCmdRange.
C4_DecodeTotal ==
    DecodeReturned =>
        \/ decoded.tag = "Ok"
        \/ decoded.tag = "Err" /\ decoded.val \in DecodeErrors

\* The 4-byte buffer [FEND, cmd, 0, c] with cmd <= 0x7F and c the CRC of the
\* three bytes before it
IsMinimalFrame(b) ==
    /\ Len(b) = 4
    /\ b[1] = FEND
    /\ b[2] <= 127
    /\ b[3] = 0
    /\ b[4] = crc(<<FEND, b[2], 0>>)

\* C5 as stated: a buffer of fewer than 4 bytes decodes to TooShortPacket;
\* a 4-byte buffer [FEND, cmd, 0, c] with cmd <= 0x7F and c = crc of
\* [FEND, cmd, 0] decodes to address absent, command cmd, data absent.
C5_MinimumLengthAsStated ==
    pc = "decoded" =>
        /\ Len(received) < 4 => decoded = Err("TooShortPacket")
        /\ IsMinimalFrame(received) =>
               decoded = Ok([address |-> None, command |-> received[2],
                             data |-> None])

\* C5 amended: a buffer of fewer than 4 bytes decodes to TooShortPacket; a
\* 4-byte buffer [FEND, cmd, 0, c] with cmd <= 0x7F and c = crc of
\* [FEND, cmd, 0] decodes to address absent, command cmd, data absent,
\* unless c is FESC (cmd = 0x1D), an escape with nothing behind it, which
\* decodes to WrongPacketLength.
C5_MinimumLength ==
    pc = "decoded" =>
        /\ Len(received) < 4 => decoded = Err("TooShortPacket")
        /\ IsMinimalFrame(received) /\ received[4] # FESC =>
               decoded = Ok([address |-> None, command |-> received[2],
                             data |-> None])
        /\ IsMinimalFrame(received) /\ received[4] = FESC =>
               received[2] = 29 /\ decoded = Err("WrongPacketLength")

C5_Witness ==
    /\ pc = "decoded"
    /\ IsMinimalFrame(received)
    /\ received[2] = 3
    /\ decoded = Ok([address |-> None, command |-> 3, data |-> None])

\* The destuffed frame of a received buffer that passed the length floor,
\* the start marker and the destuffing, and the places of its fields
\* (counted from 1): the length byte follows the command
Destuffed(b) == dry(b, FALSE)
PassedDestuffing(b) ==
    Len(b) >= 4 /\ b[1] = FEND /\ Destuffed(b).tag = "Ok"
HasAddress(f) == (f[2] \div 128) % 2 = 1
CmdPos(f) == IF HasAddress(f) THEN 3 ELSE 2
LenPos(f) == CmdPos(f) + 1
HasLengthByte(f) == Len(f) >= LenPos(f)
\* The number of bytes between the length byte and the last byte
Between(f) == Len(f) - LenPos(f) - 1

\* C6: decode reports the error of the earliest failing stage: raw length
\* < 4 gives TooShortPacket, else a first byte other than FEND gives
\* CannotFindStart, else a destuffing failure gives its error, else a
\* declared length that disagrees with the frame gives WrongPacketLength,
\* else a checksum mismatch gives WrongPacketCrc.
C6_EarliestStage ==
    DecodeReturned =>
        IF Len(received) < 4 THEN decoded = Err("TooShortPacket")
        ELSE IF received[1] # FEND THEN decoded = Err("CannotFindStart")
        ELSE IF Destuffed(received).tag # "Ok"
             THEN decoded = Destuffed(received)
        ELSE LET f == Destuffed(received).val IN
             IF ~HasLengthByte(f) THEN TRUE
             ELSE IF Between(f) # f[LenPos(f)]
                  THEN decoded = Err("WrongPacketLength")
             ELSE IF f[Len(f)] # crc(SubSeq(f, 1, Len(f) - 1))
                  THEN decoded = Err("WrongPacketCrc")
             ELSE TRUE

\* C7: in a returned packet, when the destuffed byte after the start marker
\* has bit 0x80 set, address = that byte & 0x7F and command = the following
\* byte; when the bit is clear, there is no address and command = that byte.
\* The length byte is the byte right after the command in both cases.
C7_AddressCommand ==
    DecodeReturned /\ decoded.tag = "Ok" =>
        LET f == Destuffed(received).val
            p == decoded.val
        IN  /\ HasAddress(f) =>
                   /\ p.address = Some(f[2] % 128)
                   /\ p.command = f[3]
                   /\ DataLen(p) = f[4]
            /\ ~HasAddress(f) =>
                   /\ p.address = None
                   /\ p.command = f[2]
                   /\ DataLen(p) = f[3]

C7_Witness ==
    /\ pc = "decoded"
    /\ received = <<FEND, FESC, TFEND, 64, 0, 229>>
    /\ decoded = Ok([address |-> Some(64), command |-> 64, data |-> None])

\* C8: for a destuffed frame with declared length n, decode returns
\* WrongPacketLength whenever the number of bytes between the length byte
\* and the trailing CRC byte differs from n; when it equals n and n > 0,
\* the returned data are exactly those n bytes in order.
C8_LengthField ==
    DecodeReturned /\ PassedDestuffing(received) =>
        LET f == Destuffed(received).val IN
        HasLengthByte(f) =>
            LET n == f[LenPos(f)] IN
            /\ Between(f) # n => decoded = Err("WrongPacketLength")
            /\ Between(f) = n /\ n > 0 /\ decoded.tag = "Ok" =>
                   decoded.val.data =
                       Some(SubSeq(f, LenPos(f) + 1, Len(f) - 1))

\* C9: every packet that decode returns has its address, if present,
\* <= 0x7F, its command <= 0x7F and its data length <= 255.
C9_DecodedPacketValid ==
    DecodeReturned /\ decoded.tag = "Ok" => ValidPacket(decoded.val)

\* C10: a packet with data = Some(empty) and the same packet with data =
\* None encode to the identical bytes, with length byte 0; decode returns
\* data = None exactly when the wire length field is 0, and never
\* Some(empty).
C10_ZeroLength ==
    /\ EncodeReturned /\ DataLen(wp) = 0 =>
           /\ encoded = encode([wp EXCEPT !.data = None])
           /\ encoded = encode([wp EXCEPT !.data = Some(<<>>)])
           /\ encoded.tag = "Ok" =>
                  LET f == Destuffed(encoded.val).val IN f[LenPos(f)] = 0
    /\ DecodeReturned /\ decoded.tag = "Ok" =>
           LET f == Destuffed(received).val IN
           /\ decoded.val.data = None <=> f[LenPos(f)] = 0
           /\ decoded.val.data # Some(<<>>)

C10_Witness ==
    /\ pc = "roundtrip"
    /\ wp.data = Some(<<>>)
    /\ IsSome(wp.address)
    /\ decoded = Ok([wp EXCEPT !.data = None])

\* C11 as stated: decoding encode(p) of a valid packet p with one bit of its
\* last byte inverted returns WrongPacketCrc, whichever bit it is.
C11_FlipGivesWrongCrc ==
    pc = "corrupted" /\ ValidPacket(wp) => decoded = Err("WrongPacketCrc")

\* the checksum of the frame went out as an escape pair
CrcWasStuffed == encoded.val[Len(encoded.val) - 1] = FESC

\* C11 amended: decoding encode(p) of a valid packet p with one bit of its
\* last byte inverted never returns a packet; it returns WrongPacketLength
\* when the inverted byte is FESC, DestuffingFailed when the checksum went
\* out as an escape pair and the inverted byte is neither TFEND nor TFESC,
\* and WrongPacketCrc in every other case.
C11_FlipRejected ==
    pc = "corrupted" /\ ValidPacket(wp) =>
        LET flipped == received[Len(received)] IN
        /\ Len(received) = Len(encoded.val)
        /\ flipped # encoded.val[Len(received)]
        /\ SubSeq(received, 1, Len(received) - 1)
               = SubSeq(encoded.val, 1, Len(received) - 1)
        /\ decoded.tag = "Err"
        /\ decoded.val =
               IF flipped = FESC THEN "WrongPacketLength"
               ELSE IF CrcWasStuffed /\ flipped \notin {TFEND, TFESC}
                    THEN "DestuffingFailed"
               ELSE "WrongPacketCrc"

C11_Witness ==
    /\ pc = "corrupted"
    /\ wp = [address |-> None, command |-> 29, data |-> None]
    /\ encoded = Ok(<<FEND, 29, 0, FESC, TFESC>>)
    /\ received = <<FEND, 29, 0, FESC, 223>>
    /\ decoded = Err("DestuffingFailed")

\* The recurrence in arithmetic: bit k of x, x XOR 0x18, and one step on one
\* input bit
Bit(x, k) == (x \div (2 ^ k)) % 2
Xor18(x) ==
    x + (IF Bit(x, 3) = 1 THEN -8 ELSE 8) + (IF Bit(x, 4) = 1 THEN -16 ELSE 16)
RecurrenceStep(c, bit) ==
    IF (bit + c) % 2 = 1 THEN (Xor18(c) \div 2) + 128 ELSE c \div 2
\* The 8 steps of byte b from bit k on, and the bytes of v from the k-th on
RECURSIVE RecurrenceByte(_, _, _)
RecurrenceByte(c, b, k) ==
    IF k = 8 \/ c < 0 THEN c
    ELSE RecurrenceByte(RecurrenceStep(c, Bit(b, k)), b, k + 1)
RECURSIVE RecurrenceFrom(_, _, _)
RecurrenceFrom(c, v, k) ==
    IF k > Len(v) \/ c < 0 THEN c
    ELSE RecurrenceFrom(RecurrenceByte(c, v[k], 0), v, k + 1)
Recurrence(v) == RecurrenceFrom(222, v, 1)

\* C12: crc is the bit-serial recurrence started at 0xDE (8 steps per byte,
\* LSB first); crc([]) = 0xDE, crc([1,2,3,4,5]) = 0xD6,
\* crc([0xC0,0x03,0x00]) = 0xEB, crc([0xC0,0x89,0x03,0x05,1,2,3,4,5]) = 0x69,
\* feeding 0x00, 0x01, 0xFF, 0x55 in turn from 0xDE gives 0x48, 0xDA, 0x1C,
\* 0xDA, and the result is always in 0..255.
C12_Crc ==
    /\ pc = "crc_done" =>
           /\ out = Recurrence(buf)
           /\ out \in 0..255
           /\ buf = <<>> => out = 222
           /\ buf = <<1, 2, 3, 4, 5>> => out = 214
           /\ buf = <<192, 3, 0>> => out = 235
           /\ buf = <<192, 137, 3, 5, 1, 2, 3, 4, 5>> => out = 105
    /\ pc = "do_crc8" =>
           /\ out = Recurrence(buf)
           /\ out \in 0..255
           /\ buf = <<0>> => out = 72
           /\ buf = <<0, 1>> => out = 218
           /\ buf = <<0, 1, 255>> => out = 28
           /\ buf = <<0, 1, 255, 85>> => out = 218

C12_Witness ==
    /\ pc = "crc_done"
    /\ buf = <<192, 137, 3, 5, 1, 2, 3, 4, 5>>
    /\ out = 105

\* The reserved bytes, and where byte i (counted from 1) of the pre-stuff
\* frame f lands in the stuffed frame: one place further for every
\* reserved byte between the start marker and it
Reserved == {FEND, FESC}
ReservedBefore(f, i) == Cardinality({j \in 2..(i - 1) : f[j] \in Reserved})
Landing(f, i) == i + ReservedBefore(f, i)

\* C13: in the bytes of every successful encode, FEND occurs at index 0 and
\* nowhere else, every FESC is followed by TFEND or TFESC, each 0xC0 / 0xDB
\* of the pre-stuff frame after index 0 appears as FESC,TFEND / FESC,TFESC
\* (every other byte as itself), and the output is longer than the
\* pre-stuff frame by the number of such bytes.
C13_Framing ==
    EncodeReturned /\ encoded.tag = "Ok" =>
        LET e == encoded.val
            f == WireLayout(wp)
        IN  /\ e[1] = FEND
            /\ \A i \in 2..Len(e) : e[i] # FEND
            /\ \A i \in 1..Len(e) :
                   e[i] = FESC => i < Len(e) /\ e[i + 1] \in {TFEND, TFESC}
            /\ Len(e) = Landing(f, Len(f) + 1) - 1
            /\ \A i \in 2..Len(f) :
                   LET at == Landing(f, i) IN
                   IF f[i] = FEND THEN e[at] = FESC /\ e[at + 1] = TFEND
                   ELSE IF f[i] = FESC THEN e[at] = FESC /\ e[at + 1] = TFESC
                   ELSE e[at] = f[i]

C13_Witness ==
    /\ pc = "encoded"
    /\ wp = [address |-> Some(64), command |-> 64, data |-> Some(<<FESC>>)]
    /\ encoded.tag = "Ok"
    /\ SubSeq(encoded.val, 1, 7) = <<FEND, FESC, TFEND, 64, 1, FESC, TFESC>>

StartsWithFend(v) == Len(v) > 0 /\ v[1] = FEND

\* C14 as stated: dry(stuff(x)) = x for every x of any non-zero length
\* whose first byte is FEND.
C14_StuffDryAnyLength ==
    /\ pc \in {"stuffed", "restored"} /\ StartsWithFend(buf) => out.tag = "Ok"
    /\ pc = "restored" /\ StartsWithFend(buf) => back = Ok(buf)

\* C14 amended: dry(stuff(x)) = x for every x of at least 3 bytes whose
\* first byte is FEND, whatever the bytes after the first; on a shorter x
\* stuff does not return.
C14_StuffDry ==
    /\ pc \in {"stuffed", "restored"} /\ StartsWithFend(buf) =>
           IF Len(buf) >= 3 THEN out.tag = "Ok" ELSE out.tag = "Panic"
    /\ pc = "restored" /\ StartsWithFend(buf) => back = Ok(buf)

C14_Witness ==
    /\ pc = "restored"
    /\ buf = <<FEND, FESC, 1, 2, 3, 4, 5, FEND>>
    /\ out = Ok(<<FEND, FESC, TFESC, 1, 2, 3, 4, 5, FESC, TFEND>>)
    /\ back = Ok(buf)

\* C15: on the empty sequence, on a sequence shorter than 3 bytes and on a
\* sequence whose first byte is not FEND, stuff stops with an assertion
\* failure and returns no bytes; it never stops on a read past the end.
C15_StuffRejects ==
    pc = "stuffed" =>
        /\ Len(buf) < 3 => out = Panic("assertion failed: len")
        /\ Len(buf) >= 3 /\ buf[1] # FEND => out = Panic("assertion failed: FEND")
        /\ out # Panic("index out of bounds")
        /\ out.tag = "Ok" => Len(buf) >= 3 /\ buf[1] = FEND

C15_Witness ==
    /\ pc = "stuffed"
    /\ buf = <<>>
    /\ out = Panic("assertion failed: len")

\* Destuffing as section 4.2 words it, scanning from the left: the result
\* of the rest of the buffer behind one more destuffed byte
Behind(byte, rest) == IF rest.tag = "Ok" THEN Ok(<<byte>> \o rest.val) ELSE rest
RECURSIVE Destuff(_)
Destuff(v) ==
    IF v = <<>> THEN Ok(<<>>)
    ELSE IF v[1] # FESC THEN Behind(v[1], Destuff(Tail(v)))
    ELSE IF Len(v) = 1 THEN Err("WrongPacketLength")
    ELSE IF v[2] = TFESC THEN Behind(FESC, Destuff(Tail(Tail(v))))
    ELSE IF v[2] = TFEND THEN Behind(FEND, Destuff(Tail(Tail(v))))
    ELSE Err("DestuffingFailed")

\* C17: dry, scanning left to right over any buffer, turns FESC,TFESC into
\* FESC and FESC,TFEND into FEND and copies every other byte; FESC before
\* any other byte fails with DestuffingFailed, FESC as the last byte with
\* WrongPacketLength, also for the buffer [FESC]; the empty buffer gives the
\* empty result.
C17_Dry == pc = "dried" => out = Destuff(buf)

\* C18: in the legacy binary, for every non-empty input do_stuffing leaves
\* the buffer equal to do_stuffing_v of that input; do_destuffing returns
\* true leaving the buffer equal to v exactly when do_destuffing_o returns
\* Some(v), and false exactly when it returns None; encode_packet and
\* encode_packet_v return the same bytes for every command and data.
C18_LegacyAgree ==
    /\ pc = "do_stuffing_done" /\ buf # <<>> => back = Ok(out)
    /\ pc = "do_destuffing_done" /\ buf # <<>> =>
           /\ out.ret.tag = "Ok" /\ back.tag = "Ok"
           /\ out.ret.val <=> IsSome(back.val)
           /\ out.ret.val => out.data = Unwrap(back.val)
           /\ ~out.ret.val <=> back.val = None
    /\ pc = "encode_packet_done" => back = Ok(out)

C18_Witness ==
    /\ pc = "do_destuffing_done"
    /\ buf = <<FESC, FESC, TFESC, 1, 2, 3, 4, 5, FESC, TFEND>>
    /\ out = [ret |-> Ok(TRUE), data |-> <<FESC, FESC, 1, 2, 3, 4, 5, FEND>>]
    /\ back = Ok(Some(<<FESC, FESC, 1, 2, 3, 4, 5, FEND>>))

\* C20: for a packet in range whose data has more than 255 bytes, encode
\* succeeds and writes (length mod 256) as the length byte followed by all
\* the data bytes, and decode of that output returns WrongPacketLength,
\* never the packet.
C20_LongData ==
    AddressInRange(wp) /\ CommandInRange(wp) /\ DataLen(wp) > 255 =>
        /\ EncodeReturned =>
               /\ encoded.tag = "Ok"
               /\ Destuffed(encoded.val).tag = "Ok"
               /\ LET f == Destuffed(encoded.val).val
                      n == DataLen(wp)
                  IN  /\ f[LenPos(f)] = n % 256
                      /\ SubSeq(f, LenPos(f) + 1, LenPos(f) + n) = Unwrap(wp.data)
                      /\ Len(f) = LenPos(f) + n + 1
        /\ pc = "roundtrip" => decoded = Err("WrongPacketLength")

C20_Witness ==
    /\ pc = "roundtrip"
    /\ wp.address = Some(18)
    /\ wp.command = 3
    /\ DataLen(wp) = 256
    /\ Unwrap(wp.data)[193] = FEND
    /\ Destuffed(encoded.val).val[4] = 0
    /\ decoded = Err("WrongPacketLength")

\* What the call of caller c returns when it runs alone
Alone(c) ==
    IF arg[c].op = "encode" THEN encode(arg[c].wp)
    ELSE decode(arg[c].received, overflow_checks)

\* A call under way keeps the packet or buffer it was handed
ArgumentsKept ==
    \A c \in Callers : cpc[c] # "idle" /\ cpc'[c] # "idle" => arg'[c] = arg[c]

\* Every finished call has returned what it returns alone, and calls on
\* the same argument the same value
ResultsAsAlone ==
    \A c \in Callers :
        /\ cpc[c] = "done" => cret[c] = Alone(c)
        /\ \A d \in Callers :
               cpc[c] = "done" /\ cpc[d] = "done" /\ arg[c] = arg[d] =>
                   cret[c] = cret[d]

\* C16: however the statements of concurrent encode and decode calls
\* interleave, every call returns what it returns when run alone on its
\* argument, calls on the same Packet return the same bytes, and no
\* statement of any call changes a packet or buffer handed to a call.
C16_CallsIndependent == []ResultsAsAlone /\ [][ArgumentsKept]_vars

C16_Witness ==
    /\ cpc[1] = "done" /\ cpc[2] = "e_crc"
    /\ arg[1].received = <<FEND, FESC, TFEND, 64, 0, 229>>
    /\ cret[1] = Ok([address |-> Some(64), command |-> 64, data |-> None])
    /\ arg[2].wp = [address |-> Some(64), command |-> 3,
                    data |-> Some(<<FEND, 235>>)]
    /\ local[2] = <<FEND, FEND, 3, 2, FEND, 235>>

\* C19: on every call encode makes, the buffer handed to stuff starts with
\* FEND and has at least 4 bytes, so both assertions of stuff hold; encode
\* never aborts and returns bytes or a range error.
C19_StuffAssertionsHold ==
    \A c \in Callers :
        /\ cpc[c] = "e_stuff" =>
               /\ Len(local[LocalOf(c)]) >= 4
               /\ local[LocalOf(c)][1] = FEND
        /\ cpc[c] = "done" /\ arg[c].op = "encode" =>
               \/ cret[c].tag = "Ok"
               \/ cret[c] = Err("WrongAddrRange")
               \/ cret[c] = Err("WrongCmdRange")

C19_Witness ==
    /\ cpc[1] = "e_stuff"
    /\ arg[1].wp = [address |-> None, command |-> 29, data |-> None]
    /\ local[1] = <<FEND, 29, 0, FESC>>

\* A FEND behind the start marker: in a buffer that destuffs it stands for
\* itself, as no escape pair holds one
HoldsLiteralFend(b) == \E i \in 2..Len(b) : b[i] = FEND

\* b with every FEND behind the start marker replaced by FESC,TFEND, from
\* the k-th byte on
RECURSIVE FendEscapedFrom(_, _, _)
FendEscapedFrom(acc, b, k) ==
    IF k > Len(b) \/ Len(acc) < 0 THEN acc
    ELSE FendEscapedFrom(IF k > 1 /\ b[k] = FEND THEN acc \o <<FESC, TFEND>>
                         ELSE Append(acc, b[k]),
                         b, k + 1)
FendEscaped(b) == FendEscapedFrom(<<>>, b, 1)

\* C21: for every buffer b with decode(b) = Ok(p): if p.command <= 0x7F and
\* b holds no literal FEND after index 0, encode(p) = b; if b holds a
\* literal FEND after index 0, encode(p) is a different buffer, b with that
\* FEND replaced by FESC,TFEND, and it decodes to the same p.
C21_CanonicalReEncoding ==
    pc \in {"reencoded", "redecoded"} =>
        /\ decoded.val.command <= 127 /\ ~HoldsLiteralFend(received) =>
               encoded = Ok(received)
        /\ HoldsLiteralFend(received) =>
               /\ encoded.tag = "Ok"
               /\ encoded.val # received
               /\ encoded.val = FendEscaped(received)
               /\ pc = "redecoded" => back = Ok(decoded.val)

====
